---- MODULE Spec2Model ----
(***************************************************************************)
(* Model of src/app.py: the "Dream Takeoff" market scanner.                *)
(*                                                                         *)
(*   check_dream_strategy   the per-ticker strategy evaluation (149-206)   *)
(*   get_top_volume_stocks  the ranking: sort by volume, keep `limit` rows *)
(*                          (133-140)                                      *)
(*   the button handler     rank, evaluate every ranked row, sort and show *)
(*                          the matches (222-272)                          *)
(*                                                                         *)
(* Numbers.  Closes and volumes are non-negative integers (a price in      *)
(* ticks, a volume in shares).  A rolling mean is kept as the exact        *)
(* fraction sum/window and two means are compared by cross-multiplying, so *)
(* the model computes what the float code computes up to rounding.  A      *)
(* missing value (NaN) is carried beside the number, and follows the       *)
(* pandas/numpy rules: a window holding a NaN has a NaN mean, every        *)
(* comparison with NaN is False, x/0 is +inf, -inf or NaN and never an     *)
(* exception.                                                              *)
(*                                                                         *)
(* Three specifications share the variables:                               *)
(*   SpecEval  one download and one evaluation (pc, df, strict_mode, ret)  *)
(*   SpecSel   the ranking, and the ranking of its own output              *)
(*             (volume_data, scan_limit, df_top, df_again)                 *)
(*   Spec      a full scan (df_hot, i, results, calls, final_df); calls    *)
(*             logs every call of the evaluator and what it returned       *)
(***************************************************************************)
EXTENDS Integers, Sequences, FiniteSets

VARIABLES pc, df, strict_mode, ret,
          volume_data, scan_limit, df_top, df_again,
          df_hot, i, results, calls, final_df

selVars  == <<volume_data, scan_limit, df_top, df_again>>
scanVars == <<df_hot, i, results, calls, final_df>>
vars     == <<pc, df, strict_mode, ret, volume_data, scan_limit, df_top, df_again,
              df_hot, i, results, calls, final_df>>

(***************************************************************************)
(* Program constants.                                                      *)
(***************************************************************************)
MinBars     == 205
W5          == 5
W20         == 20
W60         == 60
W120        == 120
W200        == 200
VolW        == 20
BiasLimit   == 30
segment_len == 10

(***************************************************************************)
(* Bounds of the explored inputs.                                          *)
(***************************************************************************)
\* series lengths MinBars-1 .. MinBars+MaxExtra are explored
MaxExtra   == 6
\* the higher of the two starting closes
CloseBase  == 300
\* candidates handed to the ranking
MaxTickers == 3
\* volumes of the candidates are 1..MaxVolume
MaxVolume  == 2
\* the limits of the ranking go up to MaxLimit (the slider's are 100..500)
MaxLimit   == 3

(***************************************************************************)
(* Float values: a missing value, or the fraction num/den with den > 0.    *)
(***************************************************************************)
NaN == [na |-> TRUE, num |-> 0, den |-> 1]

Val(x) == [na |-> FALSE, num |-> x, den |-> 1]

\* a > b on floats: False when either side is NaN
Gt(a, b) == ~a.na /\ ~b.na /\ a.num * b.den > b.num * a.den

(***************************************************************************)
(* A downloaded frame: raised is TRUE when yf.download raised (or gave no  *)
(* frame at all); rows are the bars, oldest first.  A bar is               *)
(* [Close, Volume, na], na the set of its columns that are NaN.            *)
(***************************************************************************)
Bar(c, v, na) == [Close |-> c, Volume |-> v, na |-> na]

Frame(rows) == [raised |-> FALSE, rows |-> rows]

NoFrame == [raised |-> TRUE, rows |-> <<>>]

\* Series.iloc[k] for a column, k a 1-based row
Cell(rows, col, k) == IF col \in rows[k].na THEN NaN ELSE Val(rows[k][col])

RECURSIVE SumCol(_, _, _, _)
SumCol(rows, col, lo, hi) ==
    IF lo > hi THEN 0
    ELSE IF lo = hi THEN rows[lo][col]
    ELSE LET mid == (lo + hi) \div 2
         IN  SumCol(rows, col, lo, mid) + SumCol(rows, col, mid + 1, hi)

\* Series.rolling(w).mean() at row k (min_periods = w): NaN on the first
\* w-1 rows and whenever the window holds a NaN
RollingMean(rows, col, w, k) ==
    IF k < w \/ (\E j \in (k - w + 1)..k : col \in rows[j].na)
    THEN NaN
    ELSE [na |-> FALSE, num |-> SumCol(rows, col, k - w + 1, k), den |-> w]

(***************************************************************************)
(* check_dream_strategy                                                    *)
(***************************************************************************)
None == [kind |-> "None"]

Raised == [kind |-> "raise"]

Match(row_data, strict) ==
    [kind |-> "match", ticker |-> row_data.ticker, volume |-> row_data.volume,
     trend |-> IF strict THEN "strong" ELSE "up"]

\* line 174-175
cond_price(rows) ==
    LET n    == Len(rows)
        curr == Cell(rows, "Close", n)
    IN  /\ Gt(curr, RollingMean(rows, "Close", W5, n))
        /\ Gt(curr, RollingMean(rows, "Close", W20, n))
        /\ Gt(curr, RollingMean(rows, "Close", W60, n))
        /\ Gt(curr, RollingMean(rows, "Close", W120, n))

\* line 180: ((ma5 - c_ma200) / c_ma200) * 100 on numpy floats
bias_val(ma5, c_ma200) ==
    IF ma5.na \/ c_ma200.na THEN [kind |-> "nan", num |-> 0, den |-> 1]
    ELSE IF c_ma200.num = 0
         THEN IF ma5.num > 0 THEN [kind |-> "inf", num |-> 0, den |-> 1]
              ELSE IF ma5.num < 0 THEN [kind |-> "-inf", num |-> 0, den |-> 1]
              ELSE [kind |-> "nan", num |-> 0, den |-> 1]
    ELSE LET d == ma5.num * c_ma200.den - c_ma200.num * ma5.den
             q == ma5.den * c_ma200.num
         IN  IF q > 0 THEN [kind |-> "fin", num |-> d * 100, den |-> q]
             ELSE [kind |-> "fin", num |-> (0 - d) * 100, den |-> 0 - q]

\* line 181: bias_val < 30
cond_bias(b) ==
    \/ b.kind = "-inf"
    \/ b.kind = "fin" /\ b.num < BiasLimit * b.den

\* lines 187-188: series.iloc[-(segment_len+1):].diff().dropna().gt(0).all()
TrendStrict(rows, col, w) ==
    LET n     == Len(rows)
        first == IF n > segment_len + 1 THEN n - segment_len ELSE 1
    IN  \A k \in (first + 1)..n :
            LET a == RollingMean(rows, col, w, k - 1)
                b == RollingMean(rows, col, w, k)
            IN  (a.na \/ b.na) \/ Gt(b, a)

\* TrendLenient with >= for >
TrendLenient_Ge(rows, col, w) ==
    LET a == RollingMean(rows, col, w, Len(rows))
        b == RollingMean(rows, col, w, Len(rows) - segment_len)
    IN  ~a.na /\ ~b.na /\ a.num * b.den >= b.num * a.den

\* lines 191-192: series.iloc[-1] > series.iloc[-(segment_len+1)]
TrendLenient(rows, col, w) ==
    LET n == Len(rows)
    IN  Gt(RollingMean(rows, col, w, n), RollingMean(rows, col, w, n - segment_len))

\* lines 185-192
cond_trend(rows, col, w, strict) ==
    IF strict THEN TrendStrict(rows, col, w) ELSE TrendLenient(rows, col, w)

\* TooShort that asks only for the bars of the longest window
TooShort_Window(rows) == Len(rows) < W200

\* line 156
TooShort(rows) == Len(rows) < MinBars

\* the body of the try block, lines 154-202: Raised stands for an exception
\* leaving the block
TryBody(row_data, d, strict) ==
    IF d.raised THEN Raised
    ELSE IF TooShort(d.rows) THEN None
    ELSE IF ~cond_price(d.rows) THEN None
    ELSE IF ~strict /\ Len(d.rows) < segment_len + 1 THEN Raised
    ELSE LET n    == Len(d.rows)
             bias == bias_val(RollingMean(d.rows, "Close", W5, n),
                              RollingMean(d.rows, "Close", W200, n))
         IN  IF /\ cond_bias(bias)
                /\ cond_trend(d.rows, "Close", W200, strict)
                /\ cond_trend(d.rows, "Volume", VolW, strict)
             THEN Match(row_data, strict)
             ELSE None

\* check_dream_strategy without the except clause
check_dream_strategy_NoExcept(row_data, d, strict) == TryBody(row_data, d, strict)

\* lines 149-206: except Exception: return None
check_dream_strategy(row_data, d, strict) ==
    LET r == TryBody(row_data, d, strict)
    IN  IF r.kind = "raise" THEN None ELSE r

(***************************************************************************)
(* The series the evaluation is explored on.  A series is described by its *)
(* length, a straight line for the close and for the volume, an optional   *)
(* spike that makes one of the last ten day-over-day deltas of the moving  *)
(* average negative while the ten-day change stays positive, and optional  *)
(* missing values: in the last row, or in the oldest rows, as many of them *)
(* as leave MinBars-1 rows without a missing value.                        *)
(***************************************************************************)
NaPos == {"none", "head", "last"}

Lens == {0, 400} \cup ((MinBars - 1)..(MinBars + MaxExtra))

Shapes ==
    [n : Lens, c0 : {0, CloseBase}, dc : {0, 1}, spikeC : BOOLEAN, naC : NaPos,
     dv : {0, 1}, spikeV : BOOLEAN, naV : NaPos]

SpikeRow(n, w) == n - w - (segment_len \div 2) + 1

NaAt(pos, n, k) ==
    (pos = "head" /\ k <= n - MinBars + 1) \/ (pos = "last" /\ k = n)

Bars(s) ==
    [k \in 1..s.n |->
        Bar(s.c0 + s.dc * (k - 1)
                + (IF s.spikeC /\ k = SpikeRow(s.n, W200) THEN 3 * W200 ELSE 0),
            1 + s.dv * (k - 1)
                + (IF s.spikeV /\ k = SpikeRow(s.n, VolW) THEN 3 * VolW ELSE 0),
            (IF NaAt(s.naC, s.n, k) THEN {"Close"} ELSE {})
                \cup (IF NaAt(s.naV, s.n, k) THEN {"Volume"} ELSE {}))]

\* the row of the ranking the evaluation is called for
Row(k, v) == [index |-> k, ticker |-> k, volume |-> v]

(***************************************************************************)
(* Specification of the evaluation alone: a series is downloaded, then     *)
(* check_dream_strategy runs on it in one of the two modes.                *)
(***************************************************************************)
Idle ==
    /\ pc = "idle"
    /\ df = NoFrame
    /\ strict_mode = FALSE
    /\ ret = None
    /\ volume_data = <<>>
    /\ scan_limit = MaxLimit
    /\ df_top = <<>>
    /\ df_again = <<>>
    /\ df_hot = <<>>
    /\ i = 0
    /\ results = <<>>
    /\ calls = <<>>
    /\ final_df = <<>>

\* line 154: yf.download(full_ticker, period="1y") returns a frame
Download(s) ==
    /\ pc = "idle"
    /\ df' = Frame(Bars(s))
    /\ pc' = "loaded"
    /\ UNCHANGED <<strict_mode, ret>>
    /\ UNCHANGED selVars
    /\ UNCHANGED scanVars

\* line 154: yf.download raises
DownloadFails ==
    /\ pc = "idle"
    /\ df' = NoFrame
    /\ pc' = "loaded"
    /\ UNCHANGED <<strict_mode, ret>>
    /\ UNCHANGED selVars
    /\ UNCHANGED scanVars

\* lines 149-206 on the downloaded frame
Evaluate(strict) ==
    /\ pc = "loaded"
    /\ strict_mode' = strict
    /\ ret' = check_dream_strategy(Row(1, 1), df, strict)
    /\ pc' = "done"
    /\ UNCHANGED df
    /\ UNCHANGED selVars
    /\ UNCHANGED scanVars

EvalNext ==
    \/ \E s \in Shapes : Download(s)
    \/ DownloadFails
    \/ \E strict \in BOOLEAN : Evaluate(strict)

SpecEval == Idle /\ [][EvalNext]_vars

(***************************************************************************)
(* get_top_volume_stocks: the ranking.                                     *)
(*                                                                         *)
(* A row of volume_data is [index, ticker, volume]: index is the label the *)
(* DataFrame gives the row (its position in volume_data), which sorting    *)
(* and truncating keep.                                                    *)
(***************************************************************************)
Min(a, b) == IF a < b THEN a ELSE b

Perms(n) == {p \in [1..n -> 1..n] : \A a, b \in 1..n : a # b => p[a] # p[b]}

\* InOrder with ascending left at its default, True
InOrder_Ascending(a, b) == a.volume <= b.volume

\* the order sort_values(ascending=False) asks of two adjacent rows
InOrder(a, b) == a.volume >= b.volume

\* DataFrame.sort_values(by=<the volume column>, ascending=False), lines 138
\* and 257.  kind is left at its default, "quicksort", which pandas documents
\* as not stable: rows of equal volume come out in an order the build
\* chooses, so every arrangement in non-increasing volume is an outcome.
sort_values(rows) ==
    {[k \in 1..Len(rows) |-> rows[p[k]]] :
        p \in {q \in Perms(Len(rows)) :
                 \A k \in 1..(Len(rows) - 1) : InOrder(rows[q[k]], rows[q[k + 1]])}}

\* DataFrame.head(n), n >= 0
head(rows, n) == SubSeq(rows, 1, Min(n, Len(rows)))

\* lines 134-140: the values get_top_volume_stocks can return for the
\* collected volume_data
get_top_volume_stocks(data, limit) ==
    IF data = <<>> THEN {<<>>}
    ELSE {head(sorted, limit) : sorted \in sort_values(data)}

\* the volume_data lines 101-131 can collect: rows with a volume of 0 or NaN
\* are skipped, so every collected volume is positive.  The stock list is
\* not de-duplicated: its last stock bears the symbol of its first.
Symbol(k) == IF k = MaxTickers THEN 1 ELSE k

VolumeData ==
    UNION {{[k \in 1..m |-> [index |-> k, ticker |-> Symbol(k), volume |-> v[k]]] :
               v \in [1..m -> 1..MaxVolume]} :
           m \in 0..MaxTickers}

\* lines 101-131, then the slider of line 218
Collect(data, limit) ==
    /\ pc = "idle"
    /\ volume_data' = data
    /\ scan_limit' = limit
    /\ pc' = "collected"
    /\ UNCHANGED <<df, strict_mode, ret, df_top, df_again>>
    /\ UNCHANGED scanVars

\* lines 134-140
Select ==
    /\ pc = "collected"
    /\ df_top' \in get_top_volume_stocks(volume_data, scan_limit)
    /\ pc' = "ranked"
    /\ UNCHANGED <<df, strict_mode, ret, volume_data, scan_limit, df_again>>
    /\ UNCHANGED scanVars

\* lines 134-140 applied to the rows they returned
Reselect ==
    /\ pc = "ranked"
    /\ df_again' \in get_top_volume_stocks(df_top, scan_limit)
    /\ pc' = "reranked"
    /\ UNCHANGED <<df, strict_mode, ret, volume_data, scan_limit, df_top>>
    /\ UNCHANGED scanVars

SelNext ==
    \/ \E data \in VolumeData, limit \in 0..MaxLimit : Collect(data, limit)
    \/ Select
    \/ Reselect

SpecSel == Idle /\ [][SelNext]_vars

(***************************************************************************)
(* The button handler, lines 222-272: rank, evaluate each ranked row, sort *)
(* the matches by volume and show them.                                    *)
(***************************************************************************)
\* what the per-ticker download gives during a scan: a rising series that
\* matches in both modes, one whose MA200 dips once in the last ten days,
\* a series one bar too short, or nothing
RisingShape ==
    [n |-> MinBars + segment_len, c0 |-> CloseBase, dc |-> 1, spikeC |-> FALSE,
     naC |-> "none", dv |-> 1, spikeV |-> FALSE, naV |-> "none"]

ScanFrame ==
    [rising |-> Frame(Bars(RisingShape)),
     dip    |-> Frame(Bars([RisingShape EXCEPT !.spikeC = TRUE])),
     short  |-> Frame(Bars([RisingShape EXCEPT !.n = MinBars - 1])),
     none   |-> NoFrame]

\* whether check_dream_strategy matches on each of these frames, in each
\* mode: the frame and the mode decide it, the row only fills the record
ScanVerdict ==
    [f \in DOMAIN ScanFrame |->
        [strict \in BOOLEAN |->
            check_dream_strategy(Row(1, 1), ScanFrame[f], strict).kind]]

\* line 248: check_dream_strategy(row, strict_mode), its download giving
\* frame f
ScanCall(row, f, strict) ==
    IF ScanVerdict[f][strict] = "match" THEN Match(row, strict) ELSE None

\* collect that starts the list again at every match: results = [res]
collect_Restart(rs, res) == IF res.kind = "match" THEN <<res>> ELSE rs

\* lines 249-250: if res: results.append(res)
collect(rs, res) == IF res.kind = "match" THEN Append(rs, res) ELSE rs

\* line 256: pd.DataFrame(results) labels the rows by position
DataFrame(rs) ==
    [k \in 1..Len(rs) |->
        [index |-> k, ticker |-> rs[k].ticker, volume |-> rs[k].volume,
         trend |-> rs[k].trend]]

\* lines 222-239: the click, with the sidebar's settings of lines 218-219
StartScan(data, limit, strict) ==
    /\ pc = "idle"
    /\ volume_data' = data
    /\ scan_limit' = limit
    /\ strict_mode' = strict
    /\ df_hot' \in get_top_volume_stocks(data, limit)
    /\ pc' = IF df_hot' = <<>> THEN "stopped" ELSE "scanning"
    /\ i' = 0
    /\ results' = <<>>
    /\ calls' = <<>>
    /\ UNCHANGED <<df, ret, df_top, df_again, final_df>>

\* lines 242-250: one turn of the loop
EvaluateNext(f) ==
    /\ pc = "scanning"
    /\ i < Len(df_hot)
    /\ LET res == ScanCall(df_hot[i + 1], f, strict_mode)
       IN  /\ calls' = Append(calls, [row |-> df_hot[i + 1], res |-> res])
           /\ results' = collect(results, res)
    /\ i' = i + 1
    /\ UNCHANGED <<pc, df, strict_mode, ret, df_hot, final_df>>
    /\ UNCHANGED selVars

\* lines 252-272: the loop is over
Display ==
    /\ pc = "scanning"
    /\ i = Len(df_hot)
    /\ IF results # <<>>
       THEN final_df' \in sort_values(DataFrame(results))
       ELSE final_df' = <<>>
    /\ pc' = "done"
    /\ UNCHANGED <<df, strict_mode, ret, df_hot, i, results, calls>>
    /\ UNCHANGED selVars

Next ==
    \/ \E data \in VolumeData, limit \in 1..MaxLimit, strict \in BOOLEAN :
           StartScan(data, limit, strict)
    \/ \E f \in DOMAIN ScanFrame : EvaluateNext(f)
    \/ Display

Spec == Idle /\ [][Next]_vars

(***************************************************************************)
(* The conditions as the specification words them, on the evaluated frame. *)
(***************************************************************************)
Evaluated == pc = "done" /\ ~df.raised

Bars205 == Evaluated /\ Len(df.rows) >= MinBars

\* rows without a missing close or volume
Usable == Cardinality({k \in 1..Len(df.rows) : df.rows[k].na = {}})

LastMean(col, w) == RollingMean(df.rows, col, w, Len(df.rows))

\* last close > MA5, MA20, MA60 and MA120 at the last bar
Alignment ==
    \A w \in {W5, W20, W60, W120} :
        Gt(Cell(df.rows, "Close", Len(df.rows)), LastMean("Close", w))

\* bias = (MA5 - MA200) / MA200 * 100 is a number below 30
BiasBelow30 ==
    LET a == LastMean("Close", W5)
        b == LastMean("Close", W200)
    IN  /\ ~a.na /\ ~b.na /\ b.num > 0
        /\ (a.num * W200 - b.num * W5) * 100 < BiasLimit * b.num * W5

\* the current value and the 10 before it are defined and every one of the
\* 10 consecutive pairs is strictly increasing
Rising11(col, w) ==
    \A k \in (Len(df.rows) - segment_len + 1)..Len(df.rows) :
        Gt(RollingMean(df.rows, col, w, k), RollingMean(df.rows, col, w, k - 1))

\* the current value exceeds the value 10 periods earlier
Above10Back(col, w) ==
    Gt(LastMean(col, w), RollingMean(df.rows, col, w, Len(df.rows) - segment_len))

TrendDirection(col, w) ==
    IF strict_mode THEN Rising11(col, w) ELSE Above10Back(col, w)

\* C1: with at least 205 bars, in either mode, a match is returned if and
\* only if the alignment, the bias below 30 and both trend-direction
\* conditions of the selected mode hold.
C1_MatchIffConditions ==
    Bars205 =>
        (ret.kind = "match" <=>
            /\ Alignment
            /\ BiasBelow30
            /\ TrendDirection("Close", W200)
            /\ TrendDirection("Volume", VolW))

C3_StrictImpliesLenient ==
    (pc = "done" /\ strict_mode /\ ret.kind = "match") =>
        check_dream_strategy(Row(1, 1), df, FALSE).kind = "match"

\* C4: a match in strict mode means that the last 11 values of the MA200
\* series and of the 20-day volume average are defined and that each of the
\* 10 consecutive pairs is strictly increasing.
C4_StrictMatchRises ==
    (Evaluated /\ strict_mode /\ ret.kind = "match") =>
        (Rising11("Close", W200) /\ Rising11("Volume", VolW))

ScenarioA ==
    /\ Evaluated
    /\ Len(df.rows) = 400
    /\ \A k \in 1..400 : df.rows[k].na = {} /\ df.rows[k].Volume = df.rows[1].Volume
    /\ df.rows[2].Close > df.rows[1].Close
    /\ \A k \in 2..400 :
           df.rows[k].Close - df.rows[k - 1].Close = df.rows[2].Close - df.rows[1].Close

\* C10 as stated: scenario A matches in lenient mode.
C10_ScenarioAMatches ==
    (ScenarioA /\ ~strict_mode) => ret.kind = "match"

\* C10 as amended: in lenient mode scenario A passes the alignment and the
\* MA200 trend check, but the 20-day volume average is constant, the volume
\* trend check fails and no match is returned.
C10_ScenarioANoMatch ==
    (ScenarioA /\ ~strict_mode) =>
        /\ Alignment
        /\ Above10Back("Close", W200)
        /\ ~Above10Back("Volume", VolW)
        /\ ret = None

\* scenario A was evaluated in lenient mode with a bias below 30
C10_Witness ==
    ScenarioA /\ ~strict_mode /\ BiasBelow30 /\ ret = None

(***************************************************************************)
(* The ranking and the scan.                                               *)
(***************************************************************************)
\* the labels of the rows the ranking kept
Kept == {df_top[k].index : k \in 1..Len(df_top)}

\* C6: the ranking returns min(n, |C|) rows, each a row of C and none
\* twice (rows of one symbol are all kept), in non-increasing volume, and no
\* row left out has a larger volume than a row returned.
C6_TopNByVolume ==
    (pc = "ranked") =>
        /\ Len(df_top) = Min(scan_limit, Len(volume_data))
        /\ \A k \in 1..Len(df_top) :
               /\ df_top[k].index \in 1..Len(volume_data)
               /\ df_top[k] = volume_data[df_top[k].index]
        /\ Cardinality(Kept) = Len(df_top)
        /\ \A k \in 1..(Len(df_top) - 1) : df_top[k].volume >= df_top[k + 1].volume
        /\ \A a \in Kept : \A b \in (1..Len(volume_data)) \ Kept :
               volume_data[a].volume >= volume_data[b].volume

\* the ranking cut a longer list and kept two rows of one symbol, the first
\* with the larger volume
C6_Witness ==
    /\ pc = "ranked"
    /\ Len(volume_data) > scan_limit
    /\ Len(df_top) >= 2
    /\ df_top[1].ticker = df_top[2].ticker
    /\ df_top[1].volume > df_top[2].volume

\* C7: rows of equal volume keep their input order in the output, and of
\* rows of equal volume on both sides of the cut the earliest are kept.
C7_StableOrder ==
    (pc = "ranked") =>
        /\ \A a, b \in 1..Len(df_top) :
               (a < b /\ df_top[a].volume = df_top[b].volume)
                   => df_top[a].index < df_top[b].index
        /\ \A a \in Kept : \A b \in (1..Len(volume_data)) \ Kept :
               volume_data[a].volume = volume_data[b].volume => a < b

\* C8: ranking the ranked rows again, with the same n, returns the same
\* sequence.
C8_Idempotent ==
    (pc = "reranked") => df_again = df_top

\* the calls of the evaluator that returned a match, in call order
MatchedCalls == LET IsMatch(c) == c.res.kind = "match" IN SelectSeq(calls, IsMatch)

\* C9: the evaluator is called once per ranked row, in ranked order, and
\* the table shown at the end holds the rows that matched, each once and no
\* other, in non-increasing volume.
C9_ScanShowsMatches ==
    /\ Len(calls) = i
    /\ i <= Len(df_hot)
    /\ \A k \in 1..Len(calls) : calls[k].row = df_hot[k]
    /\ (pc = "done") =>
           /\ Len(calls) = Len(df_hot)
           /\ Len(final_df) = Len(MatchedCalls)
           /\ {final_df[k].index : k \in 1..Len(final_df)} = 1..Len(MatchedCalls)
           /\ \A k \in 1..Len(final_df) :
                  LET row == MatchedCalls[final_df[k].index].row
                  IN  /\ final_df[k].ticker = row.ticker
                      /\ final_df[k].volume = row.volume
           /\ \A k \in 1..(Len(final_df) - 1) :
                  final_df[k].volume >= final_df[k + 1].volume

\* a scan ended with two matches of different volumes shown and a ranked row
\* that did not match left out
C9_Witness ==
    /\ pc = "done"
    /\ Len(final_df) >= 2
    /\ final_df[1].volume > final_df[2].volume
    /\ Len(df_hot) > Len(final_df)

====
